---- MODULE Spec2Model ----
(***************************************************************************)
(* State-machine model of src/src/UserNotificationWatcher.ts: the          *)
(* per-user GitHub notification poller of matrix-hookshot.                 *)
(*                                                                         *)
(* JavaScript runs the synchronous code between two awaits atomically, so  *)
(* every action below is one such run: a timer callback up to its first    *)
(* await, or the continuation of one await up to the next one.             *)
(***************************************************************************)
EXTENDS Integers, Sequences, FiniteSets, TLC

\* ---------------------------------------------------------------- constants
MIN_INTERVAL_MS == 15000
FAILURE_THRESHOLD == 50

\* ------------------------------------------------------------------- bounds
\* number of fetchUserNotifications calls of one timer that may be in flight
MaxCycles == 2
\* number of clock steps the model follows
MaxTicks == 4
\* number of notifications in one /notifications response
MaxItems == 2
\* number of /notifications requests the remote API answers successfully
MaxOk == 2
\* number of /notifications requests that fail while the remote API is up
MaxFail == 2

\* the clock advances in steps of a third of the throttle interval
TickMs == MIN_INTERVAL_MS \div 3
\* Date.now() when the watcher is constructed: far enough from the epoch that
\* lastReadTs = 0 ("never polled") is more than MIN_INTERVAL_MS ago
StartTime == MIN_INTERVAL_MS
MaxTime == StartTime + MaxTicks * TickMs

Max(a, b) == IF a >= b THEN a ELSE b

Users == {"@alice"}

\* NotificationsEnableEvent payloads handed to addUser: one never polled
\* (since = 0), one read TickMs ago, one whose since lies in the future
Registrations ==
    { [room_id |-> "!a", since |-> 0, filter_participating |-> FALSE, token |-> "t1"],
      [room_id |-> "!b", since |-> StartTime - TickMs, filter_participating |-> TRUE, token |-> "t2"],
      [room_id |-> "!c", since |-> StartTime + TickMs, filter_participating |-> FALSE, token |-> "t3"] }

\* raw UserNotification items as the API returns them: id, and which of
\* subject.url / subject.latest_comment_url are present (item 1: both, item
\* 2: subject.url only, item 3: latest_comment_url only); the *_data fields
\* are unset
RawNotif(n) ==
    [id |-> n, url |-> n # 3, latest_comment_url |-> n # 2,
     url_data |-> FALSE, latest_comment_url_data |-> FALSE]

\* response.data of a successful /notifications request: the first n of the
\* items 1, 2, 3, for n up to MaxItems
Responses == { [k \in 1..n |-> RawNotif(k)] : n \in 0..MaxItems }

\* the surroundings of one run: whether the remote API rejects every
\* /notifications request (outage), how many items its responses carry at
\* most (items), and how many calls of one timer callback the event loop lets
\* overlap (overlap)
Envs ==
    { [outage |-> TRUE, items |-> 0, overlap |-> 1],
      [outage |-> TRUE, items |-> 0, overlap |-> MaxCycles],
      [outage |-> FALSE, items |-> 0, overlap |-> MaxCycles],
      [outage |-> FALSE, items |-> MaxItems, overlap |-> 1],
      [outage |-> FALSE, items |-> MaxItems, overlap |-> MaxCycles] }

NoStream == [none |-> TRUE]
NoItem == [none |-> TRUE]

VARIABLES
    now,            \* Date.now()
    env,            \* what the surroundings do in this run (one of Envs)
    userIntervals,  \* keys of the userIntervals map (entries are never deleted)
    timerLive,      \* users whose setInterval handle has not been cleared
    stream,         \* per user, the `stream` variable closed over by its timer callback
    cyc,            \* the fetchUserNotifications calls in flight, oldest first
    pushed,         \* messages handed to queue.push, in order
    notices,        \* per user, sendMatrixText calls made by the threshold check
    deregs,         \* per user, removeUser calls made by the threshold check
    okCount,        \* /notifications requests answered successfully so far
    life,           \* per user, what its callers asked for: "never", "void" (removed
                    \* without ever being added), "on", "off", "reon"
    lastOkReq,      \* per user, when the latest request answered successfully was sent (-1: none)
    tally           \* per user, how many calls ended in the outer catch (failed) and when
                    \* the latest /notifications request was answered successfully (okAt, -1: none)

vars == <<now, env, userIntervals, timerLive, stream, cyc, pushed, notices, deregs, okCount, life, lastOkReq, tally>>

\* one fetchUserNotifications call: where it is suspended (pc), when its
\* throttle wait ends (wake), when it sent GET /notifications (reqAt), when
\* the next request of the same stream was sent while this one was still
\* unanswered (later, -1: none was), when its own request was answered
\* successfully (fetchedAt, -1: not yet), whether a call started after it has
\* published while it was in flight (overtaken), and the locals of the
\* enrichment loop
Cycle(u, pc) ==
    [pc |-> pc, user |-> u, wake |-> 0, reqAt |-> 0, later |-> -1,
     fetchedAt |-> -1, overtaken |-> FALSE,
     resp |-> <<>>, idx |-> 0, events |-> <<>>, cur |-> NoItem]

NoTally == [failed |-> 0, okAt |-> -1]

Init ==
    /\ now = StartTime
    /\ env \in Envs
    /\ userIntervals = {}
    /\ timerLive = {}
    /\ stream = [u \in Users |-> NoStream]
    /\ cyc = <<>>
    /\ pushed = <<>>
    /\ notices = [u \in Users |-> 0]
    /\ deregs = [u \in Users |-> 0]
    /\ okCount = 0
    /\ life = [u \in Users |-> "never"]
    /\ lastOkReq = [u \in Users |-> -1]
    /\ tally = [u \in Users |-> NoTally]

\* ------------------------------------------------------------------ helpers
RemoveAt(seq, i) == SubSeq(seq, 1, i - 1) \o SubSeq(seq, i + 1, Len(seq))

\* addUser: the UserStream literal
NewStream(u, data) ==
    [userId |-> u,
     token |-> data.token,
     roomId |-> data.room_id,
     lastReadTs |-> data.since,
     participating |-> data.filter_participating,
     failureCount |-> 0]

\* a clearInterval that leaves the timer running
ClearNothing(live, u) == live

\* clearInterval(this.userIntervals.get(userId)) on the set of live timers;
\* clearInterval(undefined) does nothing
ClearInterval(live, u) == live \ {u}

\* a throttle that waits a whole interval instead of the remainder
ThrottleWholeInterval(t, s) == IF t - s.lastReadTs < MIN_INTERVAL_MS THEN MIN_INTERVAL_MS ELSE 0

\* a throttle that never waits
NoThrottle(t, s) == 0

\* fetchUserNotifications: const interval = MIN_INTERVAL_MS - (Date.now() - stream.lastReadTs)
ThrottleInterval(t, s) == MIN_INTERVAL_MS - (t - s.lastReadTs)

\* fetchUserNotifications: stream.lastReadTs = Date.now()
SetLastRead(s, t) == [s EXCEPT !.lastReadTs = t]

\* an outer catch that overwrites the counter instead of incrementing it
OnFetchErrorSetsOne(s) == [s EXCEPT !.failureCount = 1]

\* an outer catch that also forgets the cursor
OnFetchErrorResetCursor(s) == [s EXCEPT !.failureCount = @ + 1, !.lastReadTs = 0]

\* fetchUserNotifications, outer catch: stream.failureCount++
OnFetchError(s) == [s EXCEPT !.failureCount = @ + 1]

\* a threshold check that trips one failure early
OverThresholdEarly(s) == s.failureCount >= FAILURE_THRESHOLD

\* fetchUserNotifications: if (stream.failureCount > FAILURE_THRESHOLD)
OverThreshold(s) == s.failureCount > FAILURE_THRESHOLD

\* enrichment loop, end of the inner function: events.push(rawEvent)
PushEvent(events, item) == Append(events, item)

\* an inner catch that only logs
OnEnrichErrorDrop(events, item) == events

\* enrichment loop, inner catch: events.push(rawEvent)
OnEnrichError(events, item) == Append(events, item)

\* the message handed to queue.push; userId and response are not part of the
\* message, they record whose cycle built it and from which response.data
Batch(s, events, resp) ==
    [roomId |-> s.roomId, events |-> events, lastReadTs |-> s.lastReadTs,
     userId |-> s.userId, response |-> resp]

\* the for loop from item k on, run until it suspends in the await of a
\* request or falls out of the loop
RECURSIVE RunLoop(_, _, _)
RunLoop(resp, k, events) ==
    IF k > Len(resp)
    THEN [pc |-> "push", idx |-> k, events |-> events, cur |-> NoItem]
    ELSE IF resp[k].url
         THEN [pc |-> "url", idx |-> k, events |-> events, cur |-> resp[k]]
         ELSE IF resp[k].latest_comment_url
              THEN [pc |-> "comment", idx |-> k, events |-> events, cur |-> resp[k]]
              ELSE RunLoop(resp, k + 1, PushEvent(events, resp[k]))

\* continuation of `await stream.octoKit.request(rawEvent.subject.url)`
AfterUrl(resp, k, events, cur, ok) ==
    IF ok
    THEN LET item == [cur EXCEPT !.url_data = TRUE] IN
         IF cur.latest_comment_url
         THEN [pc |-> "comment", idx |-> k, events |-> events, cur |-> item]
         ELSE RunLoop(resp, k + 1, PushEvent(events, item))
    ELSE RunLoop(resp, k + 1, OnEnrichError(events, cur))

\* continuation of `await stream.octoKit.request(rawEvent.subject.latest_comment_url)`
AfterComment(resp, k, events, cur, ok) ==
    IF ok
    THEN RunLoop(resp, k + 1, PushEvent(events, [cur EXCEPT !.latest_comment_url_data = TRUE]))
    ELSE RunLoop(resp, k + 1, OnEnrichError(events, cur))

\* positions in cyc of the calls in flight for u
InFlight(u) == { i \in DOMAIN cyc : cyc[i].user = u }

\* ------------------------------------------------------------------ actions
\* the clock; with a 0 ms setInterval and every other continuation ready to
\* run, time is only followed while some call sits in its throttle wait
Tick ==
    /\ now + TickMs <= MaxTime
    /\ \E i \in DOMAIN cyc : cyc[i].pc = "wait"
    /\ now' = now + TickMs
    /\ UNCHANGED <<env, userIntervals, timerLive, stream, cyc, pushed, notices, deregs, okCount, life, lastOkReq, tally>>

\* a removeUser that leaves an entry for the user in the registry
RemoveUserMarks(u) ==
    /\ timerLive' = ClearInterval(timerLive, u)
    /\ userIntervals' = userIntervals \cup {u}
    /\ life' = [life EXCEPT ![u] = IF @ \in {"never", "void"} THEN "void" ELSE "off"]
    /\ UNCHANGED <<now, env, stream, cyc, pushed, notices, deregs, okCount, lastOkReq, tally>>

\* public removeUser(userId), called by the owner of the watcher
RemoveUser(u) ==
    /\ timerLive' = ClearInterval(timerLive, u)
    /\ life' = [life EXCEPT ![u] = IF @ \in {"never", "void"} THEN "void" ELSE "off"]
    /\ UNCHANGED <<now, env, userIntervals, stream, cyc, pushed, notices, deregs, okCount, lastOkReq, tally>>

\* public addUser(data)
AddUser(u, data) ==
    LET existing == u \in userIntervals IN
    /\ IF ~existing
       THEN /\ stream' = [stream EXCEPT ![u] = NewStream(u, data)]
            /\ timerLive' = ClearInterval(timerLive, u) \cup {u}
            /\ userIntervals' = userIntervals \cup {u}
            /\ notices' = [notices EXCEPT ![u] = 0]
            /\ deregs' = [deregs EXCEPT ![u] = 0]
            /\ lastOkReq' = [lastOkReq EXCEPT ![u] = -1]
            /\ tally' = [tally EXCEPT ![u] = NoTally]
       ELSE /\ timerLive' = ClearInterval(timerLive, u)
            /\ UNCHANGED <<stream, userIntervals, notices, deregs, lastOkReq, tally>>
    /\ life' = [life EXCEPT ![u] = IF @ \in {"off", "reon"} THEN "reon" ELSE "on"]
    /\ UNCHANGED <<now, env, cyc, pushed, okCount>>

\* cyc once the call at position i (Len(cyc) + 1: a new call) of u's stream
\* has sent GET /notifications
SendRequest(i, u) ==
    [j \in 1..Max(i, Len(cyc)) |->
        IF j = i
        THEN [Cycle(u, "fetch") EXCEPT !.reqAt = now]
        ELSE IF cyc[j].pc = "fetch" /\ cyc[j].user = u /\ cyc[j].later = -1
             THEN [cyc[j] EXCEPT !.later = now]
             ELSE cyc[j]]

\* the setInterval callback of u's timer fires and calls
\* fetchUserNotifications(stream), which runs up to its first await
TimerFire(u) ==
    /\ u \in timerLive
    /\ Len(cyc) < env.overlap
    /\ cyc' = IF ThrottleInterval(now, stream[u]) > 0
              THEN Append(cyc, [Cycle(u, "wait") EXCEPT !.wake = now + ThrottleInterval(now, stream[u])])
              ELSE SendRequest(Len(cyc) + 1, u)
    /\ UNCHANGED <<now, env, userIntervals, timerLive, stream, pushed, notices, deregs, okCount, life, lastOkReq, tally>>

\* the setTimeout of the throttle wait expires
TimeoutDone(i) ==
    /\ cyc[i].pc = "wait"
    /\ now >= cyc[i].wake
    /\ cyc' = SendRequest(i, cyc[i].user)
    /\ UNCHANGED <<now, env, userIntervals, timerLive, stream, pushed, notices, deregs, okCount, life, lastOkReq, tally>>

\* the calls in flight once call i has published: the calls of the same
\* stream that started before it and have not returned are overtaken
Overtake(i) ==
    [j \in DOMAIN cyc |->
        IF j < i /\ cyc[j].user = cyc[i].user
        THEN [cyc[j] EXCEPT !.overtaken = TRUE]
        ELSE cyc[j]]

\* the try block of call i ends by throwing out of queue.push
Throws(st, pushOk) == st.pc = "push" /\ ~pushOk

\* the threshold check and the return of call i, for the stream value s and
\* the calls in flight c the try/catch leaves behind
ThresholdCheck(i, u, s, c) ==
    IF OverThreshold(s)
    THEN /\ timerLive' = ClearInterval(timerLive, u)
         /\ deregs' = [deregs EXCEPT ![u] = @ + 1]
         /\ notices' = [notices EXCEPT ![u] = @ + 1]
         /\ life' = [life EXCEPT ![u] = "off"]
         /\ cyc' = [c EXCEPT ![i] = Cycle(u, "notice")]
    ELSE /\ cyc' = RemoveAt(c, i)
         /\ UNCHANGED <<timerLive, deregs, notices, life>>

\* the rest of the try block of call i once its loop is at st: either it is
\* suspended in a request, or it reaches queue.push, which returns (pushOk)
\* or throws into the outer catch
Proceed(i, u, s, resp, st, pushOk) ==
    IF st.pc # "push"
    THEN /\ stream' = [stream EXCEPT ![u] = s]
         /\ cyc' = [cyc EXCEPT ![i] = [Cycle(u, st.pc) EXCEPT !.resp = resp, !.idx = st.idx,
                                          !.events = st.events, !.cur = st.cur,
                                          !.fetchedAt = IF cyc[i].pc = "fetch" THEN now
                                                        ELSE cyc[i].fetchedAt,
                                          !.overtaken = cyc[i].overtaken]]
         /\ UNCHANGED <<timerLive, pushed, notices, deregs, life>>
    ELSE IF pushOk
         THEN /\ pushed' = Append(pushed, Batch(s, st.events, resp))
              /\ stream' = [stream EXCEPT ![u] = s]
              /\ ThresholdCheck(i, u, s, Overtake(i))
         ELSE /\ pushed' = pushed
              /\ stream' = [stream EXCEPT ![u] = OnFetchError(s)]
              /\ ThresholdCheck(i, u, OnFetchError(s), cyc)

\* GET /notifications of call i throws
FetchFail(i) ==
    LET u == cyc[i].user IN
    /\ cyc[i].pc = "fetch"
    /\ env.outage \/ stream[u].failureCount < MaxFail
    /\ stream' = [stream EXCEPT ![u] = OnFetchError(@)]
    /\ ThresholdCheck(i, u, OnFetchError(stream[u]), cyc)
    /\ tally' = [tally EXCEPT ![u].failed = @ + 1]
    /\ UNCHANGED <<now, env, userIntervals, pushed, okCount, lastOkReq>>

\* GET /notifications of call i answers with resp
FetchOk(i, resp, pushOk) ==
    LET u == cyc[i].user IN
    /\ cyc[i].pc = "fetch"
    /\ ~env.outage
    /\ Len(resp) <= env.items
    /\ okCount < MaxOk
    /\ okCount' = okCount + 1
    /\ lastOkReq' = [lastOkReq EXCEPT ![u] = Max(@, cyc[i].reqAt)]
    /\ tally' = [tally EXCEPT ![u] =
                    [failed |-> IF Throws(RunLoop(resp, 1, <<>>), pushOk) THEN @.failed + 1
                                ELSE @.failed,
                     okAt |-> now]]
    /\ Proceed(i, u, SetLastRead(stream[u], now), resp, RunLoop(resp, 1, <<>>), pushOk)
    /\ UNCHANGED <<now, env, userIntervals>>

\* the subject.url request of the current item of call i returns (ok) or throws
UrlDone(i, ok, pushOk) ==
    /\ cyc[i].pc = "url"
    /\ Proceed(i, cyc[i].user, stream[cyc[i].user], cyc[i].resp,
               AfterUrl(cyc[i].resp, cyc[i].idx, cyc[i].events, cyc[i].cur, ok), pushOk)
    /\ tally' = [tally EXCEPT ![cyc[i].user].failed =
                    IF Throws(AfterUrl(cyc[i].resp, cyc[i].idx, cyc[i].events, cyc[i].cur, ok), pushOk)
                    THEN @ + 1 ELSE @]
    /\ UNCHANGED <<now, env, userIntervals, okCount, lastOkReq>>

\* the subject.latest_comment_url request of the current item of call i
\* returns (ok) or throws
CommentDone(i, ok, pushOk) ==
    /\ cyc[i].pc = "comment"
    /\ Proceed(i, cyc[i].user, stream[cyc[i].user], cyc[i].resp,
               AfterComment(cyc[i].resp, cyc[i].idx, cyc[i].events, cyc[i].cur, ok), pushOk)
    /\ tally' = [tally EXCEPT ![cyc[i].user].failed =
                    IF Throws(AfterComment(cyc[i].resp, cyc[i].idx, cyc[i].events, cyc[i].cur, ok), pushOk)
                    THEN @ + 1 ELSE @]
    /\ UNCHANGED <<now, env, userIntervals, okCount, lastOkReq>>

\* sendMatrixText resolves and call i returns
NoticeDone(i) ==
    /\ cyc[i].pc = "notice"
    /\ cyc' = RemoveAt(cyc, i)
    /\ UNCHANGED <<now, env, userIntervals, timerLive, stream, pushed, notices, deregs, okCount, life, lastOkReq, tally>>

Next ==
    \/ Tick
    \/ \E u \in Users : RemoveUser(u)
    \/ \E u \in Users, data \in Registrations : AddUser(u, data)
    \/ \E u \in Users : TimerFire(u)
    \/ \E i \in DOMAIN cyc : TimeoutDone(i)
    \/ \E i \in DOMAIN cyc : FetchFail(i)
    \/ \E i \in DOMAIN cyc, resp \in Responses, pushOk \in BOOLEAN : FetchOk(i, resp, pushOk)
    \/ \E i \in DOMAIN cyc, ok \in BOOLEAN, pushOk \in BOOLEAN : UrlDone(i, ok, pushOk)
    \/ \E i \in DOMAIN cyc, ok \in BOOLEAN, pushOk \in BOOLEAN : CommentDone(i, ok, pushOk)
    \/ \E i \in DOMAIN cyc : NoticeDone(i)

Spec == Init /\ [][Next]_vars

\* runs in which responses carry no items: registry, throttle and failure
\* counting with overlapping calls
InitBare == Init /\ env.items = 0

NextBare ==
    \/ Tick
    \/ \E u \in Users : RemoveUser(u)
    \/ \E u \in Users, data \in Registrations : AddUser(u, data)
    \/ \E u \in Users : TimerFire(u)
    \/ \E i \in DOMAIN cyc : TimeoutDone(i)
    \/ \E i \in DOMAIN cyc : FetchFail(i)
    \/ \E i \in DOMAIN cyc, resp \in Responses, pushOk \in BOOLEAN : FetchOk(i, resp, pushOk)
    \/ \E i \in DOMAIN cyc : NoticeDone(i)

SpecBare == InitBare /\ [][NextBare]_vars

\* runs in which the calls of a stream do not overlap
InitSeq == Init /\ env.overlap = 1

SpecSeq == InitSeq /\ [][Next]_vars

\* runs without items, with the fairness the event loop gives: a live timer
\* fires, an expired timeout and an answered request resume their call, the
\* clock moves on
FairBare ==
    /\ SpecBare
    /\ WF_vars(Tick)
    /\ \A u \in Users : WF_vars(TimerFire(u))
    /\ WF_vars(\E i \in DOMAIN cyc : TimeoutDone(i))
    /\ WF_vars(\E i \in DOMAIN cyc : FetchFail(i))
    /\ WF_vars(\E i \in DOMAIN cyc : NoticeDone(i))

\* runs in which every /notifications request fails
InitDown == Init /\ env.outage

NextDown ==
    \/ Tick
    \/ \E u \in Users : RemoveUser(u)
    \/ \E u \in Users, data \in Registrations : AddUser(u, data)
    \/ \E u \in Users : TimerFire(u)
    \/ \E i \in DOMAIN cyc : TimeoutDone(i)
    \/ \E i \in DOMAIN cyc : FetchFail(i)
    \/ \E i \in DOMAIN cyc : NoticeDone(i)

SpecDown == InitDown /\ [][NextDown]_vars

\* the same runs with the fairness the event loop gives
FairDown ==
    /\ SpecDown
    /\ WF_vars(Tick)
    /\ \A u \in Users : WF_vars(TimerFire(u))
    /\ WF_vars(\E i \in DOMAIN cyc : TimeoutDone(i))
    /\ WF_vars(\E i \in DOMAIN cyc : FetchFail(i))
    /\ WF_vars(\E i \in DOMAIN cyc : NoticeDone(i))

\* ------------------------------------------------------------------- claims
Registered(u) == stream[u] # NoStream

\* the step sends a /notifications request for u's stream
Sends(u) ==
    \/ TimerFire(u) /\ ThrottleInterval(now, stream[u]) <= 0
    \/ \E i \in InFlight(u) : TimeoutDone(i)

\* C1: addUser replaces unconditionally: after addUser(data) for a userId
\* that already has an entry, the user's timer is live and polls the stream
\* built from data.
C1_AddUserReplaces ==
    [][\A u \in Users, data \in Registrations :
          (AddUser(u, data) /\ u \in userIntervals)
              => (u \in timerLive' /\ stream'[u] = NewStream(u, data))]_vars

\* C2: once a user was deregistered and addUser was called again for it, a
\* call for that user eventually sends a /notifications request.
C2_ReAddPollsAgain ==
    \A u \in Users :
        (life[u] = "reon") ~> (\E i \in InFlight(u) : cyc[i].pc = "fetch")

\* C3: at most one fetchUserNotifications call per user is in flight.
C3_OneActiveCycle == \A u \in Users : Cardinality(InFlight(u)) <= 1

\* C4: a /notifications request is sent at least MIN_INTERVAL_MS after every
\* earlier request of the same stream that succeeded: after the latest one
\* already answered, and, when a request is answered successfully, before the
\* next one that was sent in the meantime.
C4_RequestsThrottled ==
    [][/\ \A u \in Users :
            (Sends(u) /\ lastOkReq[u] # -1) => now - lastOkReq[u] >= MIN_INTERVAL_MS
       /\ \A i \in DOMAIN cyc, resp \in Responses, pushOk \in BOOLEAN :
            (FetchOk(i, resp, pushOk) /\ cyc[i].later # -1)
              => cyc[i].later - cyc[i].reqAt >= MIN_INTERVAL_MS]_vars

\* C5: a stream is deregistered by the threshold check at most once and its
\* room gets at most one notice.
C5_OneNoticeOneDeregistration ==
    \A u \in Users : notices[u] <= 1 /\ deregs[u] <= 1

\* C6: whenever a call publishes its batch (its try block did not throw),
\* the stream's failureCount is 0 afterwards.
C6_SuccessResetsFailureCount ==
    [][Len(pushed') > Len(pushed)
          => stream'[pushed'[Len(pushed')].userId].failureCount = 0]_vars

C8_FetchFailureEffect ==
    [][/\ \A i \in DOMAIN cyc :
            FetchFail(i) =>
                /\ stream'[cyc[i].user].lastReadTs = stream[cyc[i].user].lastReadTs
                /\ stream'[cyc[i].user].failureCount = stream[cyc[i].user].failureCount + 1
       /\ ((\E u \in Users : TimerFire(u))
             \/ (\E i \in DOMAIN cyc : TimeoutDone(i) \/ NoticeDone(i)))
            => stream' = stream]_vars

\* C8 witness: a stream has had a successful fetch and a failed one (every
\* answered request was published, so failureCount counts failed fetches
\* only), and its cursor is the one the successful fetch set.
C8_Witness ==
    \E u \in Users :
        /\ Registered(u)
        /\ cyc = <<>>
        /\ okCount >= 1
        /\ okCount = Len(pushed)
        /\ stream[u].failureCount >= 1
        /\ stream[u].lastReadTs = pushed[Len(pushed)].lastReadTs
        /\ stream[u].lastReadTs > StartTime

\* C9: failureCount grows only in a step in which a /notifications request
\* fails, and such a step does not move lastReadTs.
C9_OnlyFetchErrorsCount ==
    [][\A u \in Users :
          (Registered(u) /\ Registered(u)'
              /\ stream'[u].failureCount > stream[u].failureCount)
            => /\ \E i \in DOMAIN cyc : FetchFail(i)
               /\ stream'[u].lastReadTs = stream[u].lastReadTs]_vars

\* C10: every published batch holds the items of its response, each once and
\* in the response's order, with nothing but the *_data fields changed.
C10_BatchKeepsEveryItem ==
    \A k \in DOMAIN pushed :
        /\ Len(pushed[k].events) = Len(pushed[k].response)
        /\ \A j \in DOMAIN pushed[k].events :
            [pushed[k].events[j] EXCEPT !.url_data = FALSE, !.latest_comment_url_data = FALSE]
                = pushed[k].response[j]

\* C10 witness: a published batch of two items, the first with a failed
\* enrichment request (no url_data although it has a subject.url).
C10_Witness ==
    \E k \in DOMAIN pushed :
        /\ Len(pushed[k].events) = 2
        /\ pushed[k].events[1].url /\ ~pushed[k].events[1].url_data
        /\ pushed[k].events[2].url /\ pushed[k].events[2].url_data


\* C11: the two enrichment requests of one item fail independently: when the
\* subject.url request of an item that has a latest_comment_url throws, the
\* latest_comment_url request of the same item is still made (so that its
\* result can be attached and only url_data stays unset)
C11_EnrichmentFetchesIndependent ==
    [][\A i \in DOMAIN cyc, pushOk \in BOOLEAN :
        (UrlDone(i, FALSE, pushOk) /\ cyc[i].cur.latest_comment_url)
            => /\ Len(cyc') = Len(cyc)
               /\ cyc'[i].pc = "comment"
               /\ cyc'[i].idx = cyc[i].idx]_vars


\* the step is call i handing its batch to queue.push
Publishes(i) ==
    /\ Len(pushed') = Len(pushed) + 1
    /\ \/ \E resp \in Responses : FetchOk(i, resp, TRUE)
       \/ \E ok \in BOOLEAN : UrlDone(i, ok, TRUE)
       \/ \E ok \in BOOLEAN : CommentDone(i, ok, TRUE)

\* C12: the batches of one stream are published in the order in which their
\* cycles started: no call publishes after a call of the same stream that
\* started later has already published
C12_PublishInStartOrder ==
    [][\A i \in DOMAIN cyc : Publishes(i) => ~cyc[i].overtaken]_vars


\* C13: removeUser cancels future fires only: it clears the timer and leaves
\* the calls in flight as they are; from then on, until the user is added
\* again, the cancelled timer starts no new call, while a call that was in
\* flight can still have its request answered and publish
C13_RemoveCancelsFutureFiresOnly ==
    [][\A u \in Users :
        /\ RemoveUser(u) => (u \notin timerLive' /\ cyc' = cyc /\ pushed' = pushed)
        /\ (life[u] = "off" /\ life'[u] = "off")
              => (~TimerFire(u) /\ Cardinality(InFlight(u)') <= Cardinality(InFlight(u)))]_vars

\* the caller has removed the user while a call was waiting for the answer to
\* its /notifications request, and that call can still publish
C13_Witness ==
    \E u \in Users :
        /\ life[u] = "off"
        /\ deregs[u] = 0
        /\ u \notin timerLive
        /\ \E i \in InFlight(u) : ENABLED (\E resp \in Responses : FetchOk(i, resp, TRUE))


\* C14: removeUser on a user that was never added, or that is already
\* removed, changes nothing: the registry, every timer, every stream and every
\* call in flight stay as they are; and addUser of a user the registry does
\* not hold, whether or not removeUser was called for it before, creates the
\* stream and schedules its polling
C14_RemoveAbsentIsNoOp ==
    [][\A u \in Users :
        /\ (RemoveUser(u) /\ life[u] \in {"never", "void", "off"})
              => UNCHANGED <<userIntervals, timerLive, stream, cyc, pushed, notices, deregs>>
        /\ \A data \in Registrations :
              (AddUser(u, data) /\ life[u] \in {"never", "void"})
                  => /\ u \in timerLive'
                     /\ u \in userIntervals'
                     /\ stream'[u] = NewStream(u, data)]_vars

\* removeUser has been called for a user that was never added: the registry
\* holds nothing for it, so the next addUser is a first-time one
C14_Witness ==
    \E u \in Users :
        /\ life[u] = "void"
        /\ u \notin userIntervals
        /\ u \notin timerLive
        /\ stream[u] = NoStream


\* C15: sustained failure eventually disables the stream: while every
\* /notifications request fails, a stream that its caller has registered and
\* not removed is eventually deregistered by the threshold check, with a
\* notice sent to its room; and no batch is ever published
C15_OutageDisablesStream ==
    /\ [](env.outage => pushed = <<>>)
    /\ \A u \in Users :
          (env.outage /\ Registered(u) /\ life[u] \in {"on", "reon"})
              ~> \/ deregs[u] >= 1 /\ notices[u] >= 1 /\ u \notin timerLive
                 \/ life[u] = "off" /\ deregs[u] = 0


\* the step takes call i, whose /notifications request succeeded, to the end
\* of its try block
FinishesFetched(i) ==
    \/ \E resp \in Responses, pushOk \in BOOLEAN :
          FetchOk(i, resp, pushOk) /\ RunLoop(resp, 1, <<>>).pc = "push"
    \/ \E ok \in BOOLEAN, pushOk \in BOOLEAN :
          /\ UrlDone(i, ok, pushOk)
          /\ AfterUrl(cyc[i].resp, cyc[i].idx, cyc[i].events, cyc[i].cur, ok).pc = "push"
    \/ \E ok \in BOOLEAN, pushOk \in BOOLEAN :
          /\ CommentDone(i, ok, pushOk)
          /\ AfterComment(cyc[i].resp, cyc[i].idx, cyc[i].events, cyc[i].cur, ok).pc = "push"

\* C16: a completed cycle has exactly one of two outcomes: its fetch
\* succeeded, and it publishes exactly one batch, holding every item of the
\* response, with failureCount unchanged; or its fetch failed, and it
\* publishes nothing
C16_TwoOutcomes ==
    [][\A i \in DOMAIN cyc :
        /\ FinishesFetched(i)
              => /\ Len(pushed') = Len(pushed) + 1
                 /\ Len(pushed'[Len(pushed')].events) = Len(pushed'[Len(pushed')].response)
                 /\ stream'[cyc[i].user].failureCount = stream[cyc[i].user].failureCount
        /\ FetchFail(i) => pushed' = pushed]_vars


\* C17: a call started elapsed = now - lastReadTs after the last read waits
\* exactly MIN_INTERVAL_MS - elapsed before it sends its request when
\* elapsed < MIN_INTERVAL_MS, and is not resumed earlier; when
\* elapsed >= MIN_INTERVAL_MS (in particular for lastReadTs = 0) it sends its
\* request at once
C17_ThrottleAmount ==
    [][/\ \A u \in Users :
            TimerFire(u) =>
                LET elapsed == now - stream[u].lastReadTs
                    call == cyc'[Len(cyc')]
                IN  IF elapsed < MIN_INTERVAL_MS
                    THEN /\ call.pc = "wait"
                         /\ call.wake - now = MIN_INTERVAL_MS - elapsed
                    ELSE /\ call.pc = "fetch"
                         /\ call.reqAt = now
       /\ \A i \in DOMAIN cyc :
            TimeoutDone(i) => (now >= cyc[i].wake /\ cyc'[i].reqAt = now)]_vars

\* a call started 5000 ms after the last read is waiting for 10000 ms
C17_Witness ==
    \E i \in DOMAIN cyc :
        /\ cyc[i].pc = "wait"
        /\ now - stream[cyc[i].user].lastReadTs = 5000
        /\ cyc[i].wake - now = 10000


\* C18: no premature disabling: a call deregisters the stream or sends the
\* notice only when failureCount is above FAILURE_THRESHOLD at its threshold
\* check; up to FAILURE_THRESHOLD failures the stream stays registered and
\* silent
C18_NoPrematureDisabling ==
    /\ \A u \in Users :
          (deregs[u] > 0 \/ notices[u] > 0)
              => (Registered(u) /\ stream[u].failureCount > FAILURE_THRESHOLD)
    /\ \A i \in DOMAIN cyc :
          cyc[i].pc = "notice" => stream[cyc[i].user].failureCount > FAILURE_THRESHOLD

\* the stream has failed exactly FAILURE_THRESHOLD times, its last call has
\* returned, and it is neither deregistered nor has a notice been sent
C18_Witness ==
    \E u \in Users :
        /\ Registered(u)
        /\ stream[u].failureCount = FAILURE_THRESHOLD
        /\ InFlight(u) = {}
        /\ u \in timerLive
        /\ deregs[u] = 0
        /\ notices[u] = 0


\* the `since` the stream was registered with
SinceOf(s) == (CHOOSE data \in Registrations : data.token = s.token).since

\* C19: no update is lost when cycles of a stream overlap: failureCount is the
\* number of its calls that have ended in failure so far, and lastReadTs is
\* the time of its most recent successful fetch, or `since` if there was none
C19_NoLostUpdates ==
    \A u \in Users :
        Registered(u) =>
            /\ stream[u].failureCount = tally[u].failed
            /\ stream[u].lastReadTs = IF tally[u].okAt = -1 THEN SinceOf(stream[u])
                                      ELSE tally[u].okAt

\* a call is still waiting for its answer while calls that sent their
\* requests after it have already failed and succeeded
C19_Witness ==
    \E i \in DOMAIN cyc :
        /\ cyc[i].pc = "fetch"
        /\ cyc[i].later # -1
        /\ tally[cyc[i].user].failed >= 1
        /\ tally[cyc[i].user].okAt > cyc[i].reqAt


\* C20: the lastReadTs a published batch carries is the time at which the
\* /notifications request of the call that publishes it was answered, not a
\* later time written by another call of the stream while this one was
\* enriching
C20_BatchCarriesOwnFetchTime ==
    [][\A i \in DOMAIN cyc :
        Publishes(i) =>
            pushed'[Len(pushed')].lastReadTs =
                IF cyc[i].pc = "fetch" THEN now ELSE cyc[i].fetchedAt]_vars

====
